---- MODULE Spec2Model ----
(***************************************************************************)
(* pipup: the change-delivery pipeline (cli._merge over git.Git), the     *)
(* update resolver (updater.Updater.update_requirements), the release      *)
(* sources (index.Index, index.GitIndex) and the requirements file parser  *)
(* and renderer (models.DependencyOptions, models.Requirements).           *)
(*                                                                         *)
(* Strings that the code inspects character by character (names that are   *)
(* lower-cased or searched for "://") are sequences of one-character       *)
(* strings; the other strings are TLA+ strings.                            *)
(***************************************************************************)
EXTENDS Integers, Sequences, FiniteSets, TLC

VARIABLES
    \* ---- delivery pipeline (cli._merge) ----
    pc,                 \* position of _merge
    updates,            \* the `updates` argument: files handed to _merge
    workflows,          \* settings.workflows
    remote,             \* the remote repository: ref -> head sha (0: no such ref)
    conclusions,        \* the remote's workflow runs: run -> conclusion (None: running)
    head_ref,           \* local head_ref of _merge
    head_sha,           \* local head_sha of _merge
    branch_sha,         \* local branch_sha of _merge
    pull_request_summary, \* the number in the pull request title
    pull_request_id,    \* local pull_request_id of _merge
    i,                  \* index of the for loop over updates
    log,                \* the Git method calls issued so far, successful polls excepted
    polls,              \* number of polls issued (saturating at MaxPolls)
    snapshot,           \* pull_request_actions of the latest poll
    ret,                \* what _merge returned: "True", "False", None while running or raised
    commits,            \* the summaries of the commits written to the branch, in order
    \* ---- update resolver (Updater.update_requirements) ----
    rpc,                \* position of update_requirements
    requirements,       \* self._requirements
    index,              \* the Release Source: package name -> releases, or Missing
    file_no,            \* index of the loop over self._requirements
    dep_no,             \* index of the loop over requirements.dependencies
    dependencies,       \* local dependencies of the file in progress
    file_updates,       \* local updates of the file in progress
    new_requirements,   \* local _requirements
    queries,            \* the Release Source queries issued so far
    saved,              \* the file paths _update has written to disk, in order
    cli_updates,        \* what _update returned: the `updates` of cli
    pass_no,            \* the number of calls of update_requirements on the Updater
    \* ---- release sources (index.Index, index.GitIndex) ----
    ipc,                \* position of the accessor
    mirrors,            \* settings.mirrors: what each mirror answers, in order
    mirror_no,          \* index of the loop over settings.mirrors
    requested,          \* the mirrors queried so far
    package,            \* local package of get_releases_for_package
    repo,               \* the tag names of the repository's answer
    candidates,         \* what the accessor returned
    \* ---- requirements files (models.DependencyOptions, models.Requirements) ----
    ppc,                \* position of the parser
    text,               \* the comment text given to parse_options
    dependency_options, \* what parse_options returned
    resolved,           \* what the resolver made of the dependency carrying it
    fh,                 \* the lines of the requirements file, as readlines gives them
    parsed,             \* Requirements.dependencies after parse_requirements_txt
    contents            \* what export_requirements_txt returned

merge_vars == <<pc, updates, workflows, remote, conclusions, head_ref, head_sha,
                branch_sha, pull_request_summary, pull_request_id, i, log, polls,
                snapshot, ret, commits>>

updater_vars == <<rpc, requirements, index, file_no, dep_no, dependencies, file_updates,
                  new_requirements, queries, saved, cli_updates, pass_no>>

index_vars == <<ipc, mirrors, mirror_no, requested, package, repo, candidates>>

parse_vars == <<ppc, text, dependency_options, resolved, fh, parsed, contents>>

vars == <<merge_vars, updater_vars, index_vars, parse_vars>>

\* Python's None: "None" where the value is a string, 0 where it is a sha or a
\* number (commit shas are 1, 2, ...; pull request numbers are positive).
None == "None"

\* ---------------------------------------------------------------- bounds
MaxFiles == 2
MaxPolls == 2
MaxEntries == 2
MaxMirrors == 3
MaxReleases == 2

\* ---------------------------------------------------------------- helpers
Min(a, b) == IF a < b THEN a ELSE b

RECURSIVE SumSeq(_)
SumSeq(s) == IF s = <<>> THEN 0 ELSE Head(s) + SumSeq(Tail(s))

SeqsUpTo(S, n) == UNION {[1..k -> S] : k \in 0..n}

\* str.lower() on the letters the model uses
LowerChar(c) ==
    CASE c = "C" -> "c"
      [] c = "I" -> "i"
      [] c = "L" -> "l"
      [] OTHER -> c

Lower(s) == [k \in DOMAIN s |-> LowerChar(s[k])]

\* A Python dict as the sequence of its <<key, value>> items in insertion
\* order; d[k] = v replaces the value of an existing key in place and
\* appends a new key.
DictHas(d, k) == \E n \in DOMAIN d : d[n][1] = k

DictGet(d, k) == d[CHOOSE n \in DOMAIN d : d[n][1] = k][2]

DictSet(d, k, v) ==
    IF DictHas(d, k)
    THEN [n \in DOMAIN d |-> IF d[n][1] = k THEN <<k, v>> ELSE d[n]]
    ELSE Append(d, <<k, v>>)

\* ------------------------------------------------------- models.py
\* A Requirements file is represented by the pin_changed flags of its
\* updates; a LockFile carries nothing the pipeline can read.
PinChanges == {<<>>, <<FALSE>>, <<TRUE>>, <<TRUE, FALSE, TRUE>>}

RequirementsFiles == {[kind |-> "Requirements", pin_changed |-> c] : c \in PinChanges}

LockFiles == {[kind |-> "LockFile"]}

\* Requirements.update_count
update_count(r) ==
    Cardinality({n \in DOMAIN r.pin_changed : r.pin_changed[n]})

\* Requirements.update_summary: "pipup: <count> dependencies updated in
\* <file_path>"
update_summary(r, file_path) == [count |-> update_count(r), file_path |-> file_path]

\* have_updates that counts every update, changed or not
HaveUpdatesAnyRecord(r) == Len(r.pin_changed) > 0

\* Requirements.have_updates
have_updates(r) ==
    Cardinality({n \in DOMAIN r.pin_changed : r.pin_changed[n]}) > 0

\* LockFile.update_count calls the functools.cache wrapper of
\* _calculate_changes with an unhashable self (a dataclass with eq and
\* without frozen has __hash__ = None): it raises TypeError.
LockFileUpdateCountRaises(u) == u.kind = "LockFile"

\* ------------------------------------------------------- the remote
DefaultRef == "refs/heads/main"
BranchRef == "refs/heads/pipup-uuid"
OtherRef == "refs/tags/v1"
Refs == {DefaultRef, BranchRef, OtherRef}

PullNumbers == {1, 2}

CI == <<"C", "I">>
ci == <<"c", "i">>
Lint == <<"L", "i", "n", "t">>

\* The workflow runs the actions API lists for the branch, in the order of
\* the response, each with the numbers of the pull requests it belongs to.
WorkflowRuns == <<
    [name |-> CI,   event |-> "pull_request", pull_requests |-> {1}],
    [name |-> Lint, event |-> "pull_request", pull_requests |-> {1, 2}],
    [name |-> CI,   event |-> "push",         pull_requests |-> {1, 2}],
    [name |-> ci,   event |-> "pull_request", pull_requests |-> {1, 2}] >>

Conclusions == {"success", "failure"}

WorkflowSettings == {<<>>, <<CI>>, <<ci, Lint>>}

\* ------------------------------------------------------- git.py
Call(name, arg, ok) == [call |-> name, arg |-> arg, ok |-> ok]

\* Git.get_head_ref, after both reads succeeded
get_head_ref(rem) ==
    IF rem[DefaultRef] # 0 THEN <<DefaultRef, rem[DefaultRef]>> ELSE <<None, 0>>

\* Git.get_pull_request_actions: the dict comprehension over workflow_runs
RECURSIVE ActionsDict(_, _, _)
ActionsDict(runs, concl, id) ==
    IF runs = <<>> THEN <<>>
    ELSE LET n == Len(runs)
             rest == ActionsDict(SubSeq(runs, 1, n - 1), [k \in 1..(n - 1) |-> concl[k]], id)
             a == runs[n]
         IN  IF concl[n] # None /\ a.event = "pull_request" /\ id \in a.pull_requests
             THEN DictSet(rest, a.name, concl[n])
             ELSE rest

\* the comprehension without "if action["conclusion"]": runs still in
\* progress are listed too
RECURSIVE AllRunsDict(_, _, _)
AllRunsDict(runs, concl, id) ==
    IF runs = <<>> THEN <<>>
    ELSE LET n == Len(runs)
             rest == AllRunsDict(SubSeq(runs, 1, n - 1), [k \in 1..(n - 1) |-> concl[k]], id)
             a == runs[n]
         IN  IF a.event = "pull_request" /\ id \in a.pull_requests
             THEN DictSet(rest, a.name, concl[n])
             ELSE rest

GetAllRuns(concl, id) == AllRunsDict(WorkflowRuns, concl, id)

get_pull_request_actions(concl, id) == ActionsDict(WorkflowRuns, concl, id)

\* the keys of the dict left as the API spells them
KeepKeys(d) == d

\* Git.wait_for_workflows: {k.lower(): v for k, v in ....items()}
RECURSIVE LowerKeys(_)
LowerKeys(d) ==
    IF d = <<>> THEN <<>>
    ELSE LET n == Len(d)
         IN  DictSet(LowerKeys(SubSeq(d, 1, n - 1)), Lower(d[n][1]), d[n][2])

\* Git.wait_for_workflows: required_workflows lower-cased
RequiredWorkflows(wf) == {Lower(wf[k]) : k \in DOMAIN wf}

\* a wait that returns only once some check has concluded
SomeConcluded(required, actions) ==
    actions # <<>> /\ \A w \in required : DictHas(actions, w)

\* Git.wait_for_workflows: all([workflow in pull_request_actions ...])
AllConcluded(required, actions) == \A w \in required : DictHas(actions, w)

\* happy_bunny that a single successful check satisfies
HappyBunnyAny(required, actions) == \E n \in DOMAIN actions : actions[n][2] = "success"

\* Git.wait_for_workflows: happy_bunny
HappyBunny(required, actions) == \A w \in required : DictGet(actions, w) = "success"

\* ------------------------------------------------------- cli._merge
\* _merge without the check of the head ref
HeadRefNeverMissing(ref, sha) == FALSE

\* cli.py:82  if not head_ref or not head_sha
HeadRefMissing(ref, sha) == ref = None \/ sha = 0

\* _merge without the check of branch_sha
AlwaysBranchChanges(sha) == FALSE

\* cli.py:109  if not branch_sha
NoBranchChanges(sha) == sha = 0

\* the files with changes counted instead of their changed pins
CountsFiles(ups) == Cardinality({k \in DOMAIN ups : have_updates(ups[k])})

\* cli.py:88: the number in "pipup (<n> changes)"
TotalChanges(ups) == SumSeq([k \in DOMAIN ups |-> update_count(ups[k])])

\* a failed comment propagating out of _merge
AfterCommentPropagating(ok) == IF ok THEN "delete" ELSE "raised"

\* cli.py:125-131: an exception of create_commit_comment is logged and
\* swallowed, the next statement is git.delete_branch() either way
AfterComment(ok) == "delete"

\* a failure answered with a clean-up of the branch instead of the exception
RaiseCleansUp == "delete"

\* An exception that leaves a Git method propagates out of _merge.
Raise == "raised"

\* a file written to the default branch
FileBranchIsDefault == DefaultRef

\* git.py:177: "branch": self._branch_name, the branch a file is written to
FileBranch == BranchRef

\* The commit sha the contents API answers with: a new commit on the branch
NewCommit(rem) == rem[BranchRef] + 1

\* The updater before resolve_requirements has run
UpdaterIdle ==
    /\ rpc = "idle"
    /\ requirements = <<>>
    /\ index = <<>>
    /\ file_no = 0
    /\ dep_no = 0
    /\ dependencies = <<>>
    /\ file_updates = <<>>
    /\ new_requirements = <<>>
    /\ queries = <<>>
    /\ saved = <<>>
    /\ cli_updates = <<>>
    /\ pass_no = 0

\* index.py:62: package = None, and a package as r.json() gives it
NoPackage == [json |-> FALSE, releases |-> <<>>]

Json(releases) == [json |-> TRUE, releases |-> releases]

\* No accessor of a release source has been called
IndexIdle ==
    /\ ipc = "idle"
    /\ mirrors = <<>>
    /\ mirror_no = 0
    /\ requested = <<>>
    /\ package = NoPackage
    /\ repo = <<>>
    /\ candidates = <<>>

\* No requirements file is being read
ParseIdle ==
    /\ ppc = "idle"
    /\ text = <<>>
    /\ dependency_options = <<>>
    /\ resolved = <<>>
    /\ fh = <<>>
    /\ parsed = <<>>
    /\ contents = <<>>

Init ==
    /\ UpdaterIdle
    /\ IndexIdle
    /\ ParseIdle
    /\ pc = "start"
    /\ updates \in SeqsUpTo(RequirementsFiles \cup LockFiles, MaxFiles) \ {<<>>}  \* cli.py:200
    /\ workflows \in WorkflowSettings
    /\ remote \in {[r \in Refs |-> IF r = BranchRef THEN 0 ELSE IF r = DefaultRef THEN d ELSE 1]
                     : d \in {0, 1}}
    /\ conclusions = [k \in DOMAIN WorkflowRuns |-> None]
    /\ head_ref = None
    /\ head_sha = 0
    /\ branch_sha = 0
    /\ pull_request_summary = 0
    /\ pull_request_id = 0
    /\ i = 0
    /\ log = <<>>
    /\ polls = 0
    /\ snapshot = <<>>
    /\ ret = None
    /\ commits = <<>>

\* cli.py:81-84 with Git.get_head_ref (git.py:127-138): list the refs, read
\* the default branch, look the default branch up among the refs.
GetHeadRef ==
    /\ pc = "start"
    /\ \E outcome \in {"ok", "refs_failed", "repo_failed"} :
        IF outcome = "refs_failed"
        THEN /\ log' = Append(log, Call("get_refs", 0, FALSE))
             /\ pc' = Raise
             /\ UNCHANGED <<head_ref, head_sha, ret>>
        ELSE IF outcome = "repo_failed"
        THEN /\ log' = log \o <<Call("get_refs", 0, TRUE), Call("get_default_branch", 0, FALSE)>>
             /\ pc' = Raise
             /\ UNCHANGED <<head_ref, head_sha, ret>>
        ELSE /\ log' = log \o <<Call("get_refs", 0, TRUE), Call("get_default_branch", 0, TRUE)>>
             /\ head_ref' = get_head_ref(remote)[1]
             /\ head_sha' = get_head_ref(remote)[2]
             /\ IF HeadRefMissing(head_ref', head_sha')
                THEN pc' = "done" /\ ret' = "False"
                ELSE pc' = "create_branch" /\ UNCHANGED ret
    /\ UNCHANGED <<updates, workflows, remote, conclusions, branch_sha,
                   pull_request_summary, pull_request_id, i, polls, snapshot>>
    /\ UNCHANGED <<commits, updater_vars, index_vars, parse_vars>>

\* cli.py:86 with Git.create_branch (git.py:140-149)
CreateBranch ==
    /\ pc = "create_branch"
    /\ \E ok \in BOOLEAN :
        /\ log' = Append(log, Call("create_branch", head_sha, ok))
        /\ IF ok
           THEN pc' = "summary" /\ remote' = [remote EXCEPT ![BranchRef] = head_sha]
           ELSE pc' = Raise /\ UNCHANGED remote
    /\ UNCHANGED <<updates, workflows, conclusions, head_ref, head_sha, branch_sha,
                   pull_request_summary, pull_request_id, i, polls, snapshot, ret>>
    /\ UNCHANGED <<commits, updater_vars, index_vars, parse_vars>>

\* cli.py:88-90: the pull request title; update_count of a LockFile raises
Summarise ==
    /\ pc = "summary"
    /\ IF \E k \in DOMAIN updates : LockFileUpdateCountRaises(updates[k])
       THEN pc' = Raise /\ UNCHANGED <<pull_request_summary, i>>
       ELSE /\ pull_request_summary' = TotalChanges(updates)
            /\ i' = 1
            /\ pc' = "commit"
    /\ UNCHANGED <<updates, workflows, remote, conclusions, head_ref, head_sha,
                   branch_sha, pull_request_id, log, polls, snapshot, ret>>
    /\ UNCHANGED <<commits, updater_vars, index_vars, parse_vars>>

\* cli.py:91-107: one iteration of the for loop, with Git.update_branch_file
\* (git.py:163-186), which reads the file's sha and then puts the contents
CommitFile ==
    /\ pc = "commit"
    /\ i <= Len(updates)
    /\ IF ~have_updates(updates[i])
       THEN /\ i' = i + 1
            /\ UNCHANGED <<pc, remote, branch_sha, log, commits>>
       ELSE \E outcome \in {"ok", "sha_failed", "put_failed"} :
            IF outcome = "sha_failed"
            THEN /\ log' = Append(log, Call("get_file_sha", i, FALSE))
                 /\ pc' = Raise
                 /\ UNCHANGED <<remote, branch_sha, i, commits>>
            ELSE IF outcome = "put_failed"
            THEN /\ log' = log \o <<Call("get_file_sha", i, TRUE),
                                     Call("update_branch_file", i, FALSE)>>
                 /\ pc' = Raise
                 /\ UNCHANGED <<remote, branch_sha, i, commits>>
            ELSE /\ log' = log \o <<Call("get_file_sha", i, TRUE),
                                     Call("update_branch_file", i, TRUE)>>
                 /\ remote' = [remote EXCEPT ![FileBranch] = NewCommit(remote)]
                 /\ branch_sha' = NewCommit(remote)
                 /\ commits' = Append(commits, update_summary(updates[i], i))
                 /\ i' = i + 1
                 /\ UNCHANGED pc
    /\ UNCHANGED <<updates, workflows, conclusions, head_ref, head_sha,
                   pull_request_summary, pull_request_id, polls, snapshot, ret>>
    /\ UNCHANGED <<updater_vars, index_vars, parse_vars>>

\* cli.py:109-112 with Git.delete_branch (git.py:236-242)
SkipPullRequest ==
    /\ pc = "commit"
    /\ i > Len(updates)
    /\ NoBranchChanges(branch_sha)
    /\ \E ok \in BOOLEAN :
        /\ log' = Append(log, Call("delete_branch", 0, ok))
        /\ IF ok
           THEN /\ remote' = [remote EXCEPT ![BranchRef] = 0]
                /\ pc' = "done"
                /\ ret' = "False"
           ELSE pc' = Raise /\ UNCHANGED <<remote, ret>>
    /\ UNCHANGED <<updates, workflows, conclusions, head_ref, head_sha, branch_sha,
                   pull_request_summary, pull_request_id, i, polls, snapshot>>
    /\ UNCHANGED <<commits, updater_vars, index_vars, parse_vars>>

\* cli.py:114-118 with Git.create_pull_request (git.py:188-201)
CreatePullRequest ==
    /\ pc = "commit"
    /\ i > Len(updates)
    /\ ~NoBranchChanges(branch_sha)
    /\ \E ok \in BOOLEAN :
        /\ log' = Append(log, Call("create_pull_request", pull_request_summary, ok))
        /\ IF ok
           THEN /\ pull_request_id' \in PullNumbers
                /\ pc' = "wait"
           ELSE pc' = Raise /\ UNCHANGED pull_request_id
    /\ UNCHANGED <<updates, workflows, remote, conclusions, head_ref, head_sha,
                   branch_sha, pull_request_summary, i, polls, snapshot, ret>>
    /\ UNCHANGED <<commits, updater_vars, index_vars, parse_vars>>

\* The remote side while the pull request is open: a workflow run concludes.
WorkflowConcludes ==
    /\ pc = "wait"
    /\ \E k \in DOMAIN conclusions, c \in Conclusions :
        /\ conclusions[k] = None
        /\ conclusions' = [conclusions EXCEPT ![k] = c]
    /\ UNCHANGED <<pc, updates, workflows, remote, head_ref, head_sha, branch_sha,
                   pull_request_summary, pull_request_id, i, log, polls, snapshot, ret>>
    /\ UNCHANGED <<commits, updater_vars, index_vars, parse_vars>>

\* cli.py:119 with one iteration of the while loop of Git.wait_for_workflows
\* (git.py:252-275): poll, then return or sleep
Poll ==
    /\ pc = "wait"
    /\ \E ok \in BOOLEAN :
        IF ~ok
        THEN /\ pc' = Raise
             /\ polls' = Min(polls + 1, MaxPolls)
             /\ log' = Append(log, Call("get_pull_request_actions", pull_request_id, FALSE))
             /\ UNCHANGED snapshot
        ELSE /\ polls' = Min(polls + 1, MaxPolls)
             /\ UNCHANGED log
             /\ snapshot' = LowerKeys(get_pull_request_actions(conclusions, pull_request_id))
             /\ IF AllConcluded(RequiredWorkflows(workflows), snapshot')
                THEN IF HappyBunny(RequiredWorkflows(workflows), snapshot')
                     THEN pc' = "merge"
                     ELSE pc' = "comment"
                ELSE pc' = "wait"
    /\ UNCHANGED <<updates, workflows, remote, conclusions, head_ref, head_sha,
                   branch_sha, pull_request_summary, pull_request_id, i, ret>>
    /\ UNCHANGED <<commits, updater_vars, index_vars, parse_vars>>

\* cli.py:120-122 with Git.merge_pull_request (git.py:218-225)
Merge ==
    /\ pc = "merge"
    /\ \E ok \in BOOLEAN :
        /\ log' = Append(log, Call("merge_pull_request", pull_request_id, ok))
        /\ IF ok
           THEN /\ remote' = [remote EXCEPT ![DefaultRef] = remote[BranchRef]]
                /\ pc' = "done"
                /\ ret' = "True"
           ELSE pc' = Raise /\ UNCHANGED <<remote, ret>>
    /\ UNCHANGED <<updates, workflows, conclusions, head_ref, head_sha, branch_sha,
                   pull_request_summary, pull_request_id, i, polls, snapshot>>
    /\ UNCHANGED <<commits, updater_vars, index_vars, parse_vars>>

\* cli.py:124-131 with Git.create_commit_comment (git.py:227-234)
Comment ==
    /\ pc = "comment"
    /\ \E ok \in BOOLEAN :
        /\ log' = Append(log, Call("create_commit_comment", branch_sha, ok))
        /\ pc' = AfterComment(ok)
    /\ UNCHANGED <<updates, workflows, remote, conclusions, head_ref, head_sha,
                   branch_sha, pull_request_summary, pull_request_id, i, polls,
                   snapshot, ret>>
    /\ UNCHANGED <<commits, updater_vars, index_vars, parse_vars>>

\* cli.py:132-133 with Git.delete_branch (git.py:236-242)
DeleteBranch ==
    /\ pc = "delete"
    /\ \E ok \in BOOLEAN :
        /\ log' = Append(log, Call("delete_branch", 0, ok))
        /\ IF ok
           THEN /\ remote' = [remote EXCEPT ![BranchRef] = 0]
                /\ pc' = "done"
                /\ ret' = "False"
           ELSE pc' = Raise /\ UNCHANGED <<remote, ret>>
    /\ UNCHANGED <<updates, workflows, conclusions, head_ref, head_sha, branch_sha,
                   pull_request_summary, pull_request_id, i, polls, snapshot>>
    /\ UNCHANGED <<commits, updater_vars, index_vars, parse_vars>>

Next ==
    \/ GetHeadRef
    \/ CreateBranch
    \/ Summarise
    \/ CommitFile
    \/ SkipPullRequest
    \/ CreatePullRequest
    \/ WorkflowConcludes
    \/ Poll
    \/ Merge
    \/ Comment
    \/ DeleteBranch

Spec == Init /\ [][Next]_vars

\* ================================================= updater.py, models.py
\* A version string is the sequence of its release segments ("1.9.0" is
\* <<1, 9, 0>>); the empty sequence is the pin of an unpinned dependency
\* (None). Two strings can differ and name the same version (1.9 and 1.9.0).
NoPin == <<>>

Segment(v, k) == IF k <= Len(v) THEN v[k] ELSE 0

Longest(a, b) == IF Len(a) < Len(b) THEN Len(b) ELSE Len(a)

\* packaging.version.Version ordering of two final releases
VersionLess(a, b) ==
    \E k \in 1..Longest(a, b) :
        /\ Segment(a, k) < Segment(b, k)
        /\ \A j \in 1..(k - 1) : Segment(a, j) = Segment(b, j)

VersionEqual(a, b) == \A k \in 1..Longest(a, b) : Segment(a, k) = Segment(b, k)

\* packaging.specifiers.Specifier.contains for one clause
ClauseContains(clause, release) ==
    CASE clause.op = ">=" -> ~VersionLess(release, clause.version)
      [] clause.op = "<"  -> VersionLess(release, clause.version)
      [] clause.op = "==" -> VersionEqual(release, clause.version)

\* packaging.specifiers.SpecifierSet.contains: every clause accepts
SpecifierContains(specifier, release) ==
    \A clause \in specifier : ClauseContains(clause, release)

\* "needle in haystack" on strings
Contains(haystack, needle) ==
    \E k \in 1..(Len(haystack) - Len(needle) + 1) :
        SubSeq(haystack, k, k + Len(needle) - 1) = needle

UrlMark == <<":", "/", "/">>

\* models.DependencyOptions
DependencyOptions(specifier, ignore, raw) ==
    [specifier |-> specifier, ignore |-> ignore, use_tags |-> FALSE,
     allow_pre_releases |-> FALSE, raw |-> raw]

\* models.RawDependency
RawDependency(line) == [kind |-> "RawDependency", line |-> line]

\* models.Dependency
Dependency(name, version_pin, extras, options) ==
    [kind |-> "Dependency", name |-> name, version_pin |-> version_pin,
     extras |-> extras, options |-> options]

\* models.GitHubDependency
GitHubDependency(name, version_pin, extras, options, git_schema, github_org, github_repo) ==
    [kind |-> "GitHubDependency", name |-> name, version_pin |-> version_pin,
     extras |-> extras, options |-> options, git_schema |-> git_schema,
     github_org |-> github_org, github_repo |-> github_repo]

\* models.Update
Update(name, previous_pin, new_pin, pin_changed) ==
    [name |-> name, previous_pin |-> previous_pin, new_pin |-> new_pin,
     pin_changed |-> pin_changed]

\* models.Requirements
Requirements(file_path, deps, upds) ==
    [file_path |-> file_path, dependencies |-> deps, updates |-> upds]

Pkg == <<"p", "k", "g">>
Url == <<"h", ":", "/", "/", "x">>
Widget == <<"w">>

Below2 == {[op |-> ">=", version |-> <<1, 0>>], [op |-> "<", version |-> <<2, 0>>]}
Below1 == {[op |-> "<", version |-> <<1, 0>>]}

\* The entries of the requirements files the resolver is run on
Entries ==
    {RawDependency("-r base.txt"),
     Dependency(Pkg, NoPin, <<>>, DependencyOptions({}, FALSE, "")),
     Dependency(Pkg, <<1, 8, 0>>, <<>>, DependencyOptions({}, FALSE, "")),
     Dependency(Pkg, <<2, 0, 0>>, <<>>, DependencyOptions({}, FALSE, "")),
     Dependency(Pkg, <<1, 8, 0>>, <<>>, DependencyOptions(Below2, FALSE, "pipup")),
     Dependency(Pkg, <<1, 9>>, <<>>, DependencyOptions(Below2, FALSE, "pipup")),
     Dependency(Pkg, <<1, 8, 0>>, <<>>, DependencyOptions(Below2, TRUE, "pipup")),
     Dependency(Pkg, <<1, 8, 0>>, <<>>, DependencyOptions({}, TRUE, "pipup")),
     Dependency(Pkg, <<1, 8, 0>>, <<"extra">>, DependencyOptions(Below1, FALSE, "pipup")),
     Dependency(Url, NoPin, <<>>, DependencyOptions({}, FALSE, "")),
     Dependency(Url, <<1, 8, 0>>, <<>>, DependencyOptions(Below2, FALSE, "pipup")),
     GitHubDependency(Widget, <<1, 8, 0>>, <<>>, DependencyOptions({}, FALSE, ""),
                      "git+https", "acme", "widget")}

\* What Index.get_releases_for_package does for a name: it answers with the
\* releases, newest first, or raises ValueError (no mirror has the package)
Found(releases) == [found |-> TRUE, releases |-> releases]

Missing == [found |-> FALSE, releases |-> <<>>]

PkgReleases ==
    {<<>>, <<<<2, 0, 0>>>>, <<<<1, 9, 0>>>>, <<<<2, 0, 0>>, <<1, 9, 0>>, <<1, 8, 0>>>>,
     <<<<2, 0, 0>>, <<1, 8, 0>>>>, <<<<1, 9, 0>>, <<1, 8, 0>>>>}

\* The files: two of them, with MaxEntries entries at most between them
RequirementsLists ==
    UNION {{<<Requirements("requirements.txt", SubSeq(e, 1, k), <<>>),
              Requirements("requirements-dev.txt", SubSeq(e, k + 1, Len(e)), <<>>)>>
               : k \in 0..Len(e)}
            : e \in SeqsUpTo(Entries, MaxEntries) \ {<<>>}}

\* updater.py:64
IsRaw(dependency) == dependency.kind = "RawDependency"

\* an updater that honours only the url test
QueriesIgnored(dependency) == ~Contains(dependency.name, UrlMark)

\* updater.py:70-75: the dependency is looked up in the index
Queried(dependency) ==
    ~dependency.options.ignore /\ ~Contains(dependency.name, UrlMark)

\* the filter testing against a single clause of the specifier
FilterAnyClause(dependency, releases) ==
    LET Accepted(release) == \E clause \in dependency.options.specifier :
                                 ClauseContains(clause, release)
    IN  IF dependency.options.specifier # {}
        THEN SelectSeq(releases, Accepted)
        ELSE releases

\* updater.py:77-82: the releases the specifier accepts, in order
FilterReleases(dependency, releases) ==
    LET Accepted(release) == SpecifierContains(dependency.options.specifier, release)
    IN  IF dependency.options.specifier # {}
        THEN SelectSeq(releases, Accepted)
        ELSE releases

\* the oldest release taken for the latest
OldestRelease(releases) == releases[Len(releases)]

\* updater.py:94, 106: releases[0]
LatestRelease(releases) == releases[1]

\* updater.py:90-101
MakeUpdate(dependency, releases) ==
    Update(dependency.name,
           dependency.version_pin,
           IF Len(releases) > 0 THEN LatestRelease(releases) ELSE dependency.version_pin,
           Len(releases) > 0 /\ LatestRelease(releases) # dependency.version_pin)

\* the entry emitted with the pin it had
KeepsPin(dependency, releases) == dependency

\* updater.py:103-107
UpdatedDependency(dependency, releases) ==
    IF releases = <<>>
    THEN dependency
    ELSE Dependency(dependency.name, LatestRelease(releases), dependency.extras,
                    dependency.options)

Query(file, entry, name) == [file |-> file, entry |-> entry, name |-> name]

InitUpdater ==
    /\ rpc = "update"
    /\ requirements \in RequirementsLists
    /\ index \in {[name \in {Pkg, Url, Widget} |->
                      IF name = Pkg THEN r ELSE IF name = Url THEN Found(<<<<3, 0>>>>) ELSE w]
                    : r \in {Found(x) : x \in PkgReleases} \cup {Missing},
                      w \in {Found(<<<<1, 9, 0>>, <<1, 8, 0>>>>), Missing}}
    /\ file_no = 1
    /\ dep_no = 1
    /\ dependencies = <<>>
    /\ file_updates = <<>>
    /\ new_requirements = <<>>
    /\ queries = <<>>
    /\ saved = <<>>
    /\ cli_updates = <<>>
    /\ pass_no = 1

\* _merge not started: the pipeline's variables at rest
MergeIdle ==
    /\ pc = "idle"
    /\ updates = <<>>
    /\ workflows = <<>>
    /\ remote = [r \in Refs |-> 0]
    /\ conclusions = [k \in DOMAIN WorkflowRuns |-> None]
    /\ head_ref = None
    /\ head_sha = 0
    /\ branch_sha = 0
    /\ pull_request_summary = 0
    /\ pull_request_id = 0
    /\ i = 0
    /\ log = <<>>
    /\ polls = 0
    /\ snapshot = <<>>
    /\ ret = None
    /\ commits = <<>>

InitResolve == MergeIdle /\ InitUpdater /\ IndexIdle /\ ParseIdle

\* an opaque entry left out of the output
DropRaw(deps, dependency) == deps

\* updater.py:66: an opaque entry goes to the output as it is
PassThrough(deps, dependency) == Append(deps, dependency)

\* a lookup that never fails: a package no mirror has counts as one
\* without releases
QueryNeverFails(dependency, idx) == FALSE

\* updater.py:75, index.py:63-72: the lookup raises (no mirror has the
\* package, or a mirror answered with an error other than 404)
QueryFails(dependency, idx) == Queried(dependency) /\ ~idx[dependency.name].found

\* updater.py:61-107: one iteration of the loop over the dependencies
UpdateDependency ==
    /\ rpc = "update"
    /\ file_no <= Len(requirements)
    /\ dep_no <= Len(requirements[file_no].dependencies)
    /\ LET dependency == requirements[file_no].dependencies[dep_no]
       IN  IF IsRaw(dependency)
           THEN /\ dependencies' = PassThrough(dependencies, dependency)
                /\ dep_no' = dep_no + 1
                /\ UNCHANGED <<rpc, file_updates, queries>>
           ELSE IF QueryFails(dependency, index)
           THEN /\ queries' = Append(queries, Query(file_no, dep_no, dependency.name))
                /\ rpc' = "raised"
                /\ UNCHANGED <<dependencies, dep_no, file_updates>>
           ELSE LET found == IF Queried(dependency) THEN index[dependency.name].releases ELSE <<>>
                    releases == FilterReleases(dependency, found)
                IN  /\ queries' = IF Queried(dependency)
                                  THEN Append(queries, Query(file_no, dep_no, dependency.name))
                                  ELSE queries
                    /\ file_updates' = Append(file_updates, MakeUpdate(dependency, releases))
                    /\ dependencies' = Append(dependencies, UpdatedDependency(dependency, releases))
                    /\ dep_no' = dep_no + 1
                    /\ UNCHANGED rpc
    /\ UNCHANGED <<requirements, index, file_no, new_requirements, saved, cli_updates,
                   pass_no>>
    /\ UNCHANGED <<merge_vars, index_vars, parse_vars>>

\* updater.py:58-60, 109-111: the file is done, on to the next one
UpdateFile ==
    /\ rpc = "update"
    /\ file_no <= Len(requirements)
    /\ dep_no > Len(requirements[file_no].dependencies)
    /\ new_requirements' = Append(new_requirements,
           Requirements(requirements[file_no].file_path, dependencies, file_updates))
    /\ file_no' = file_no + 1
    /\ dep_no' = 1
    /\ dependencies' = <<>>
    /\ file_updates' = <<>>
    /\ UNCHANGED <<rpc, requirements, index, queries, saved, cli_updates, pass_no>>
    /\ UNCHANGED <<merge_vars, index_vars, parse_vars>>

\* updater.py:113-114
UpdateReturn ==
    /\ rpc = "update"
    /\ file_no > Len(requirements)
    /\ requirements' = new_requirements
    /\ rpc' = "done"
    /\ UNCHANGED <<index, file_no, dep_no, dependencies, file_updates, new_requirements,
                   queries, saved, cli_updates, pass_no>>
    /\ UNCHANGED <<merge_vars, index_vars, parse_vars>>

\* updater.py:56-60: update_requirements called again on the same Updater,
\* on the self._requirements the call before left
UpdateAgain ==
    /\ rpc = "done"
    /\ pass_no = 1
    /\ pass_no' = 2
    /\ rpc' = "update"
    /\ file_no' = 1
    /\ dep_no' = 1
    /\ dependencies' = <<>>
    /\ file_updates' = <<>>
    /\ new_requirements' = <<>>
    /\ UNCHANGED <<requirements, index, queries, saved, cli_updates>>
    /\ UNCHANGED <<merge_vars, index_vars, parse_vars>>

\* A Requirements of the resolver as the pipeline reads it
AsDelivered(r) ==
    [kind |-> "Requirements",
     pin_changed |-> [n \in DOMAIN r.updates |-> r.updates[n].pin_changed]]

\* cli.py:64-65: the files _update writes, in order
FilesToSave(reqs) ==
    LET Changed(r) == have_updates(AsDelivered(r))
        changed == SelectSeq(reqs, Changed)
    IN  [n \in DOMAIN changed |-> changed[n].file_path]

\* cli.py:55-67: _update after update_requirements has returned
Save ==
    /\ rpc = "done"
    /\ IF \A n \in DOMAIN requirements : ~have_updates(AsDelivered(requirements[n]))
       THEN /\ cli_updates' = <<>>
            /\ UNCHANGED saved
       ELSE /\ saved' = saved \o FilesToSave(requirements)
            /\ cli_updates' = requirements
    /\ rpc' = "returned"
    /\ UNCHANGED <<requirements, index, file_no, dep_no, dependencies, file_updates,
                   new_requirements, queries, pass_no>>
    /\ UNCHANGED <<merge_vars, index_vars, parse_vars>>

\* cli.py:199-201: the guard of the delivery; github_app and merge are the
\* command line's
Deliver ==
    /\ rpc = "returned"
    /\ \E github_app \in BOOLEAN, merge \in BOOLEAN :
           rpc' = IF github_app /\ merge /\ cli_updates # <<>> THEN "merge" ELSE "exit"
    /\ UNCHANGED <<requirements, index, file_no, dep_no, dependencies, file_updates,
                   new_requirements, queries, saved, cli_updates, pass_no>>
    /\ UNCHANGED <<merge_vars, index_vars, parse_vars>>

NextResolve ==
    \/ UpdateDependency
    \/ UpdateFile
    \/ UpdateReturn
    \/ UpdateAgain
    \/ Save
    \/ Deliver

SpecResolve == InitResolve /\ [][NextResolve]_vars

\* ================================================================ index.py
\* Release names are sequences of one-character strings.
Digits == <<"0", "1", "2", "3", "4", "5", "6", "7", "8", "9">>

IsDigit(c) == \E d \in DOMAIN Digits : Digits[d] = c

DigitVal(c) == (CHOOSE d \in DOMAIN Digits : Digits[d] = c) - 1

IsLetter(c) ==
    c \in {"a", "b", "c", "d", "e", "h", "i", "l", "o", "p", "r", "s", "t", "v", "w",
           "C", "R", "V"}

\* the code point of a character, for the comparison of str values
Ord(c) ==
    CASE c = "-" -> 45
      [] c = "." -> 46
      [] IsDigit(c) -> 48 + DigitVal(c)
      [] c = "C" -> 67
      [] c = "R" -> 82
      [] c = "V" -> 86
      [] c = "_" -> 95
      [] c = "a" -> 97
      [] c = "b" -> 98
      [] c = "c" -> 99
      [] c = "d" -> 100
      [] c = "e" -> 101
      [] c = "h" -> 104
      [] c = "i" -> 105
      [] c = "l" -> 108
      [] c = "o" -> 111
      [] c = "p" -> 112
      [] c = "r" -> 114
      [] c = "s" -> 115
      [] c = "t" -> 116
      [] c = "v" -> 118
      [] c = "w" -> 119

\* str.__lt__: lexicographic by code point
StrLess(a, b) ==
    \/ Len(a) < Len(b) /\ SubSeq(b, 1, Len(a)) = a
    \/ \E k \in 1..Min(Len(a), Len(b)) :
          /\ Ord(a[k]) < Ord(b[k])
          /\ SubSeq(a, 1, k - 1) = SubSeq(b, 1, k - 1)

\* the number of digits of s from position k on
RECURSIVE DigitRun(_, _)
DigitRun(s, k) ==
    IF k <= Len(s) /\ IsDigit(s[k]) THEN 1 + DigitRun(s, k + 1) ELSE 0

\* the number of letters of s from position k on
RECURSIVE LetterRun(_, _)
LetterRun(s, k) ==
    IF k <= Len(s) /\ IsLetter(s[k]) THEN 1 + LetterRun(s, k + 1) ELSE 0

\* the number of digits s ends with
RECURSIVE TrailingDigits(_)
TrailingDigits(s) ==
    IF s # <<>> /\ IsDigit(s[Len(s)])
    THEN 1 + TrailingDigits(SubSeq(s, 1, Len(s) - 1))
    ELSE 0

\* int() of a run of digits
RECURSIVE NumberOf(_)
NumberOf(s) ==
    IF s = <<>> THEN 0
    ELSE NumberOf(SubSeq(s, 1, Len(s) - 1)) * 10 + DigitVal(s[Len(s)])

\* str() of a natural number
RECURSIVE IntToStr(_)
IntToStr(n) ==
    IF n < 10 THEN <<Digits[n + 1]>>
    ELSE IntToStr(n \div 10) \o <<Digits[(n % 10) + 1]>>

EndsWith(s, suffix) ==
    Len(s) >= Len(suffix) /\ SubSeq(s, Len(s) - Len(suffix) + 1, Len(s)) = suffix

\* index.py:40: PRE_RELEASE_PATTERN.search(release), the pattern
\* (a|b|rc|dev)[0-9]+$
PreReleasePattern(release) ==
    LET d == TrailingDigits(release)
        stem == SubSeq(release, 1, Len(release) - d)
    IN  /\ d >= 1
        /\ \/ EndsWith(stem, <<"a">>)
           \/ EndsWith(stem, <<"b">>)
           \/ EndsWith(stem, <<"r", "c">>)
           \/ EndsWith(stem, <<"d", "e", "v">>)

\* ---- packaging.version: the versions [v]N(.N)*[[-_.]label[-_.][N]] and
\* N(.N)*-N, letters in either case
FoldCase(c) ==
    CASE c = "C" -> "c"
      [] c = "R" -> "r"
      [] c = "V" -> "v"
      [] OTHER -> c

Fold(s) == [k \in DOMAIN s |-> FoldCase(s[k])]

IsSeparator(c) == c \in {"-", "_", "."}

\* the position after the release segments that start at position k of s,
\* k being just after a run of digits
RECURSIVE ReleaseEnd(_, _)
ReleaseEnd(s, k) ==
    IF k <= Len(s) /\ s[k] = "." /\ DigitRun(s, k + 1) > 0
    THEN ReleaseEnd(s, k + 1 + DigitRun(s, k + 1))
    ELSE k

\* the release segments of s between positions k and e - 1
RECURSIVE Segments(_, _, _)
Segments(s, k, e) ==
    IF k >= e THEN <<>>
    ELSE LET d == DigitRun(s, k)
         IN  <<NumberOf(SubSeq(s, k, k + d - 1))>> \o Segments(s, k + d + 1, e)

\* the phase a label stands for, None for a word that is no label
Phase(label) ==
    CASE label \in {<<"a">>, <<"a", "l", "p", "h", "a">>} -> "a"
      [] label \in {<<"b">>, <<"b", "e", "t", "a">>} -> "b"
      [] label \in {<<"c">>, <<"r", "c">>, <<"p", "r", "e">>,
                    <<"p", "r", "e", "v", "i", "e", "w">>} -> "rc"
      [] label \in {<<"p", "o", "s", "t">>, <<"r">>, <<"r", "e", "v">>} -> "post"
      [] label = <<"d", "e", "v">> -> "dev"
      [] OTHER -> None

InvalidVersion == [valid |-> FALSE, release |-> <<>>, phase |-> None, number |-> 0]

Version(release, phase, number) ==
    [valid |-> TRUE, release |-> release, phase |-> phase, number |-> number]

\* what follows the release segments: nothing, -N, or a label with its
\* optional separators and number
ParseSuffix(release, t) ==
    IF t = <<>> THEN Version(release, "final", 0)
    ELSE IF t[1] = "-" /\ Len(t) > 1 /\ DigitRun(t, 2) = Len(t) - 1
    THEN Version(release, "post", NumberOf(SubSeq(t, 2, Len(t))))
    ELSE LET a == IF IsSeparator(t[1]) THEN 2 ELSE 1
             l == LetterRun(t, a)
             label == Fold(SubSeq(t, a, a + l - 1))
             b == IF a + l <= Len(t) /\ IsSeparator(t[a + l]) THEN a + l + 1 ELSE a + l
             d == DigitRun(t, b)
         IN  IF l > 0 /\ Phase(label) # None /\ b + d = Len(t) + 1
             THEN Version(release, Phase(label), NumberOf(SubSeq(t, b, Len(t))))
             ELSE InvalidVersion

\* index.py:53, 91: version.parse(release); valid is FALSE where it raises
\* InvalidVersion
Parse(name) ==
    LET s == IF name # <<>> /\ FoldCase(name[1]) = "v" THEN Tail(name) ELSE name
        d == DigitRun(s, 1)
        e == ReleaseEnd(s, 1 + d)
    IN  IF d = 0 THEN InvalidVersion
        ELSE ParseSuffix(Segments(s, 1, e), SubSeq(s, e, Len(s)))

\* Version.is_prerelease
IsPreRelease(v) == v.phase \in {"a", "b", "rc", "dev"}

PhaseRank(phase) ==
    CASE phase = "dev" -> 0
      [] phase = "a" -> 1
      [] phase = "b" -> 2
      [] phase = "rc" -> 3
      [] phase = "final" -> 4
      [] phase = "post" -> 5

\* Version.__lt__
Precedes(v, w) ==
    \/ VersionLess(v.release, w.release)
    \/ /\ VersionEqual(v.release, w.release)
       /\ \/ PhaseRank(v.phase) < PhaseRank(w.phase)
          \/ v.phase = w.phase /\ v.number < w.number

RECURSIVE Dotted(_)
Dotted(release) ==
    IF Len(release) = 1 THEN IntToStr(release[1])
    ELSE IntToStr(release[1]) \o <<".">> \o Dotted(Tail(release))

\* Version.__str__: the canonical form
Render(v) ==
    Dotted(v.release) \o
    CASE v.phase = "final" -> <<>>
      [] v.phase = "a" -> <<"a">> \o IntToStr(v.number)
      [] v.phase = "b" -> <<"b">> \o IntToStr(v.number)
      [] v.phase = "rc" -> <<"r", "c">> \o IntToStr(v.number)
      [] v.phase = "post" -> <<".", "p", "o", "s", "t">> \o IntToStr(v.number)
      [] v.phase = "dev" -> <<".", "d", "e", "v">> \o IntToStr(v.number)

\* ---- sorted(..., reverse=True): descending, equal elements in their
\* original order
Remove(s, m) == SubSeq(s, 1, m - 1) \o SubSeq(s, m + 1, Len(s))

\* index.py:58, 100: sorted(filtered_releases, reverse=True) on Version objects
RECURSIVE SortedVersions(_)
SortedVersions(s) ==
    IF s = <<>> THEN <<>>
    ELSE LET m == CHOOSE n \in DOMAIN s :
                      /\ \A j \in DOMAIN s : ~Precedes(s[n], s[j])
                      /\ \A j \in 1..(n - 1) : Precedes(s[j], s[n])
         IN  <<s[m]>> \o SortedVersions(Remove(s, m))

\* index.py:100: sorted(filtered_releases, reverse=True) on str objects
RECURSIVE SortedStrings(_)
SortedStrings(s) ==
    IF s = <<>> THEN <<>>
    ELSE LET m == CHOOSE n \in DOMAIN s :
                      /\ \A j \in DOMAIN s : ~StrLess(s[n], s[j])
                      /\ \A j \in 1..(n - 1) : StrLess(s[j], s[n])
         IN  <<s[m]>> \o SortedStrings(Remove(s, m))

\* index.py:49-56, 87-98: the names kept, in order
KeptNames(releases) ==
    LET Keep(release) == ~PreReleasePattern(release) /\ Parse(release).valid
    IN  SelectSeq(releases, Keep)

\* index.py:47-59: Index._filter_releases
IndexFilterReleases(releases) ==
    LET kept == KeptNames(releases)
        sorted == SortedVersions([n \in DOMAIN kept |-> Parse(kept[n])])
    IN  [n \in DOMAIN sorted |-> Render(sorted[n])]

\* index.py:85-101: GitIndex._filter_releases
GitIndexFilterReleases(releases, raw_version) ==
    LET kept == KeptNames(releases)
        sorted == SortedVersions([n \in DOMAIN kept |-> Parse(kept[n])])
    IN  IF raw_version
        THEN SortedStrings(kept)
        ELSE [n \in DOMAIN sorted |-> Render(sorted[n])]

\* index.py:74-77: the keys of package["releases"] with no yanked file
NotYanked(releases) ==
    LET NoneYanked(item) == ~\E f \in DOMAIN item[2] : item[2][f]
        kept == SelectSeq(releases, NoneYanked)
    IN  [n \in DOMAIN kept |-> kept[n][1]]

\* ---- the inputs
V200 == <<"2", ".", "0", ".", "0">>
V1100 == <<"1", ".", "1", "0", ".", "0">>
V190 == <<"1", ".", "9", ".", "0">>
V19 == <<"1", ".", "9">>
V200rc1 == <<"2", ".", "0", ".", "0", "r", "c", "1">>
V200dev3 == <<"2", ".", "0", ".", "0", ".", "d", "e", "v", "3">>
V200RC1 == <<"2", ".", "0", ".", "0", "R", "C", "1">>
V200rcdot1 == <<"2", ".", "0", ".", "0", "-", "r", "c", ".", "1">>
V200b2 == <<"2", ".", "0", ".", "0", "b", "2">>
Tagv200 == <<"v", "2", ".", "0", ".", "0">>
Latest == <<"l", "a", "t", "e", "s", "t">>

\* the keys of package["releases"] of a mirror's answer
ReleaseKeys == {V200, V1100, V190, V19, V200rc1, V200dev3, V200RC1, Latest}

\* the tag names of a repository
TagNames == {Tagv200, V200, V1100, V190, V19, V200rcdot1, V200b2, Latest}

\* the "yanked" flags of the files of a release
Files == {<<FALSE>>, <<TRUE>>, <<TRUE, FALSE>>}

Distinct(s) == \A a, b \in DOMAIN s : a # b => s[a] # s[b]

\* package["releases"]: a dict from release key to files
Packages ==
    {p \in SeqsUpTo(ReleaseKeys \X Files, MaxReleases) :
        Distinct([n \in DOMAIN p |-> p[n][1]])}

RepoLists == {r \in SeqsUpTo(TagNames, MaxReleases) : Distinct(r)}

\* a mirror's answer
Response(status, releases) == [status |-> status, releases |-> releases]

Statuses == {200, 403, 404, 500}

MirrorPackages == {<<<<V200, <<FALSE>>>>>>, <<<<V190, <<FALSE>>>>>>}

Responses ==
    {Response(status, <<>>) : status \in Statuses \ {200}}
        \cup {Response(200, p) : p \in MirrorPackages}

\* settings.mirrors with what each mirror answers for the name
MirrorLists ==
    SeqsUpTo(Responses, MaxMirrors) \cup {<<Response(200, p)>> : p \in Packages}

\* requests.Response.raise_for_status
RaisesForStatus(status) == status >= 400 /\ status < 600

InitIndex ==
    /\ MergeIdle
    /\ UpdaterIdle
    /\ ParseIdle
    /\ \/ ipc = "lookup" /\ mirrors \in MirrorLists /\ repo = <<>>
       \/ ipc = "git" /\ mirrors = <<>> /\ repo \in RepoLists
    /\ mirror_no = 1
    /\ requested = <<>>
    /\ package = NoPackage
    /\ candidates = <<>>

\* a lookup that gives up a mirror on any status but success
SkipsAnyError(status) == status # 200

\* index.py:65: a 404 moves on to the next mirror
TryNext(status) == status = 404

\* index.py:63-69: one iteration of the loop over settings.mirrors
GetMirror ==
    /\ ipc = "lookup"
    /\ mirror_no <= Len(mirrors)
    /\ requested' = Append(requested, mirror_no)
    /\ LET r == mirrors[mirror_no]
       IN  IF TryNext(r.status)
           THEN /\ mirror_no' = mirror_no + 1
                /\ UNCHANGED <<ipc, package>>
           ELSE IF RaisesForStatus(r.status)
           THEN /\ ipc' = "HTTPError"
                /\ UNCHANGED <<mirror_no, package>>
           ELSE /\ package' = Json(r.releases)
                /\ ipc' = "filter"
                /\ UNCHANGED mirror_no
    /\ UNCHANGED <<mirrors, repo, candidates>>
    /\ UNCHANGED <<merge_vars, updater_vars, parse_vars>>

\* index.py:71-72: no mirror had the package
NoMirror ==
    /\ ipc = "lookup"
    /\ mirror_no > Len(mirrors)
    /\ package = NoPackage
    /\ ipc' = "ValueError"
    /\ UNCHANGED <<mirrors, mirror_no, requested, package, repo, candidates>>
    /\ UNCHANGED <<merge_vars, updater_vars, parse_vars>>

\* index.py:74-77: Index.get_releases_for_package returns
ReturnReleases ==
    /\ ipc = "filter"
    /\ candidates' = IndexFilterReleases(NotYanked(package.releases))
    /\ ipc' = "returned"
    /\ UNCHANGED <<mirrors, mirror_no, requested, package, repo>>
    /\ UNCHANGED <<merge_vars, updater_vars, parse_vars>>

\* index.py:114-122: GitIndex.get_tags_for_repo on the tags of the answer
GetTagsForRepo ==
    /\ ipc = "git"
    /\ candidates' = GitIndexFilterReleases(repo, FALSE)
    /\ ipc' = "tags"
    /\ UNCHANGED <<mirrors, mirror_no, requested, package, repo>>
    /\ UNCHANGED <<merge_vars, updater_vars, parse_vars>>

\* index.py:124-133: GitIndex.get_releases_for_repo on the releases of the
\* answer
GetReleasesForRepo ==
    /\ ipc = "git"
    /\ candidates' = GitIndexFilterReleases(repo, TRUE)
    /\ ipc' = "releases"
    /\ UNCHANGED <<mirrors, mirror_no, requested, package, repo>>
    /\ UNCHANGED <<merge_vars, updater_vars, parse_vars>>

NextIndex ==
    \/ GetMirror
    \/ NoMirror
    \/ ReturnReleases
    \/ GetTagsForRepo
    \/ GetReleasesForRepo

SpecIndex == InitIndex /\ [][NextIndex]_vars

\* ======================================================= models.py: parsing
\* Comment texts and file lines are sequences of one-character strings.
StartsWith(s, prefix) ==
    Len(s) >= Len(prefix) /\ SubSeq(s, 1, Len(prefix)) = prefix

\* str.find + 1: where needle first occurs in s, 0 if nowhere
Find(s, needle) ==
    IF Contains(s, needle)
    THEN CHOOSE k \in 1..Len(s) :
             /\ SubSeq(s, k, k + Len(needle) - 1) = needle
             /\ \A j \in 1..(k - 1) : SubSeq(s, j, j + Len(needle) - 1) # needle
    ELSE 0

\* s.split(needle)[0]
BeforeFirst(s, needle) ==
    IF Contains(s, needle) THEN SubSeq(s, 1, Find(s, needle) - 1) ELSE s

\* needle.join(s.split(needle)[1:])
AfterFirst(s, needle) ==
    IF Contains(s, needle) THEN SubSeq(s, Find(s, needle) + Len(needle), Len(s)) ELSE <<>>

\* s.split(needle)[1], for an s that holds needle
SecondPiece(s, needle) == BeforeFirst(AfterFirst(s, needle), needle)

RECURSIVE Flatten(_)
Flatten(pieces) ==
    IF pieces = <<>> THEN <<>> ELSE pieces[1] \o Flatten(SubSeq(pieces, 2, Len(pieces)))

\* sep.join(pieces)
RECURSIVE Join(_, _)
Join(sep, pieces) ==
    IF pieces = <<>> THEN <<>>
    ELSE IF Len(pieces) = 1 THEN pieces[1]
    ELSE pieces[1] \o sep \o Join(sep, SubSeq(pieces, 2, Len(pieces)))

Space == <<" ">>
Colon == <<":">>
Comma == <<",">>
Dot == <<".">>

\* models.py:61
Marker == <<"p", "i", "p", "u", "p", ":">>

\* models.py:65-72: the options parse_options knows
VersionKey == <<"v", "e", "r", "s", "i", "o", "n", ":">>
IgnoreOption == <<"i", "g", "n", "o", "r", "e">>
GitTagsOption == <<"g", "i", "t", ":", "t", "a", "g", "s">>
ReleasesPreOption == <<"r", "e", "l", "e", "a", "s", "e", "s", ":", "p", "r", "e">>

\* packaging.version.Version of N(.N)*, as the resolver compares it
RECURSIVE VersionTuple(_)
VersionTuple(s) ==
    IF Contains(s, Dot)
    THEN <<NumberOf(BeforeFirst(s, Dot))>> \o VersionTuple(AfterFirst(s, Dot))
    ELSE <<NumberOf(s)>>

SpecifierOperators == {<<">", "=">>, <<"=", "=">>, <<"<">>}

\* packaging.specifiers.Specifier(clause): the operator and the version
SpecifierClause(clause) ==
    LET op == CHOOSE o \in SpecifierOperators : StartsWith(clause, o)
    IN  [op |-> IF op = <<">", "=">> THEN ">=" ELSE IF op = <<"=", "=">> THEN "==" ELSE "<",
         version |-> VersionTuple(SubSeq(clause, Len(op) + 1, Len(clause)))]

\* packaging.specifiers.SpecifierSet(s): the clauses between the commas
RECURSIVE SpecifierSet(_)
SpecifierSet(s) ==
    IF s = <<>> THEN {}
    ELSE {SpecifierClause(BeforeFirst(s, Comma))} \cup SpecifierSet(AfterFirst(s, Comma))

\* models.py:50-56: the options before any is read
NoOptions(raw) ==
    [specifier |-> {}, ignore |-> FALSE, use_tags |-> FALSE,
     allow_pre_releases |-> FALSE, raw |-> raw]

\* an option found past the spaces that follow the marker
OptionPastSpaces(text_to_parse) ==
    IF StartsWith(text_to_parse, Space)
    THEN BeforeFirst(AfterFirst(text_to_parse, Space), Space)
    ELSE BeforeFirst(text_to_parse, Space)

\* models.py:63: option_to_parse = text_to_parse.split(" ")[0]
OptionToParse(text_to_parse) == BeforeFirst(text_to_parse, Space)

\* models.py:65-72: one option applied to the options read so far
ApplyOption(opts, option_to_parse) ==
    IF StartsWith(option_to_parse, VersionKey)
    THEN [opts EXCEPT !.specifier = SpecifierSet(SecondPiece(option_to_parse, Colon))]
    ELSE IF option_to_parse = IgnoreOption
    THEN [opts EXCEPT !.ignore = TRUE]
    ELSE IF option_to_parse = GitTagsOption
    THEN [opts EXCEPT !.use_tags = TRUE]
    ELSE IF option_to_parse = ReleasesPreOption
    THEN [opts EXCEPT !.allow_pre_releases = TRUE]
    ELSE opts

\* models.py:61-72: the loop over the markers of the text
RECURSIVE ParseLoop(_, _)
ParseLoop(text_to_parse, opts) ==
    IF Contains(text_to_parse, Marker)
    THEN LET rest == AfterFirst(text_to_parse, Marker)
         IN  ParseLoop(rest, ApplyOption(opts, OptionToParse(rest)))
    ELSE opts

\* models.py:49-74: DependencyOptions.parse_options
parse_options(t) ==
    IF t # <<>> THEN ParseLoop(t, NoOptions(t)) ELSE NoOptions(t)

\* ---- the comments the parser is run on
MaxOptions == 2

\* what stands before an option: nothing, the marker, the marker and a space
Leads == {<<>>, Marker, Marker \o Space}

VersionBelow2 == <<"v", "e", "r", "s", "i", "o", "n", ":", "<", "2", ".", "0">>
VersionBelow3 == <<"v", "e", "r", "s", "i", "o", "n", ":", "<", "3", ".", "0">>
UnknownOption == <<"f", "o", "o">>

OptionWords ==
    {IgnoreOption, GitTagsOption, ReleasesPreOption, VersionBelow2, VersionBelow3,
     UnknownOption}

\* the comments: words, each an option behind its lead, a space between two
CommentTexts ==
    {Join(Space, words) : words \in SeqsUpTo({lead \o word : lead \in Leads, word \in OptionWords},
                                               MaxOptions)}

\* the pin of the dependency that carries the comment, and what the index
\* has for it
CarriedPin == <<1, 8, 0>>
CarriedReleases == <<<<2, 0, 0>>, <<1, 9, 0>>, <<1, 8, 0>>>>

\* the dependency that carries the parsed options
Carrier(opts) == Dependency(Pkg, CarriedPin, NoPin, opts)

\* ---- requirements files
Newline == <<"\n">>
Hash == <<"#">>
Slash == <<"/">>
At == <<"@">>

Whitespace == {" ", "\n", "\t"}

\* str.lstrip(chars)
RECURSIVE LStrip(_, _)
LStrip(s, chars) ==
    IF s # <<>> /\ s[1] \in chars THEN LStrip(SubSeq(s, 2, Len(s)), chars) ELSE s

\* str.rstrip(chars)
RECURSIVE RStrip(_, _)
RStrip(s, chars) ==
    IF s # <<>> /\ s[Len(s)] \in chars THEN RStrip(SubSeq(s, 1, Len(s) - 1), chars) ELSE s

\* str.strip()
Strip(s) == LStrip(RStrip(s, Whitespace), Whitespace)

\* s.split(sep)
RECURSIVE Split(_, _)
Split(s, sep) ==
    IF Contains(s, sep)
    THEN <<BeforeFirst(s, sep)>> \o Split(AfterFirst(s, sep), sep)
    ELSE <<s>>

\* s.replace(old, "")
RECURSIVE Without(_, _)
Without(s, old) ==
    IF Contains(s, old)
    THEN BeforeFirst(s, old) \o Without(AfterFirst(s, old), old)
    ELSE s

\* the characters of a project name, an extra or a version
IsNameChar(c) ==
    c \in {"a", "b", "c", "d", "e", "f", "g", "h", "i", "j", "k", "l", "m", "n", "o",
           "p", "q", "r", "s", "t", "u", "v", "w", "x", "y", "z",
           "0", "1", "2", "3", "4", "5", "6", "7", "8", "9", "-", "_", "."}

\* the number of name characters of s from position k on
RECURSIVE NameRun(_, _)
NameRun(s, k) ==
    IF k <= Len(s) /\ IsNameChar(s[k]) THEN 1 + NameRun(s, k + 1) ELSE 0

\* a requirement as the requirements parser reads it: name, then extras
\* between brackets, then one specifier clause; <<>> where it gives up
Requirement(req, line) ==
    LET n == NameRun(req, 1)
        name == SubSeq(req, 1, n)
        tail == SubSeq(req, n + 1, Len(req))
        bracketed == StartsWith(tail, <<"[">>) /\ Contains(tail, <<"]">>)
        extras == IF bracketed
                  THEN Split(Without(BeforeFirst(AfterFirst(tail, <<"[">>), <<"]">>), Space), Comma)
                  ELSE <<>>
        specs == Strip(IF bracketed THEN AfterFirst(tail, <<"]">>) ELSE tail)
        clause == \E o \in SpecifierOperators :
                      /\ StartsWith(specs, o)
                      /\ Len(specs) > Len(o)
                      /\ NameRun(specs, Len(o) + 1) = Len(specs) - Len(o)
    IN  IF n > 0 /\ (specs = <<>> \/ clause)
        THEN <<[name |-> name, extras |-> extras, specs |-> specs, line |-> line]>>
        ELSE <<>>

\* models.py:139: parse(line, filetypes.requirements_txt).dependencies. The
\* parser skips blank lines, comments and pip options, cuts the comment off
\* and reads the rest as one requirement; a line it cannot read has none.
DparseDependencies(line) ==
    LET stripped == Strip(line)
    IN  IF stripped = <<>> \/ StartsWith(stripped, Hash) \/ StartsWith(stripped, <<"-">>)
        THEN <<>>
        ELSE Requirement(Strip(BeforeFirst(stripped, Space \o Hash)), stripped)

\* models.py:97-101, 229-233: the comment of a parsed line, None without one
CommentOf(line) ==
    IF Contains(line, Hash) THEN LStrip(AfterFirst(line, Hash), Whitespace) ELSE <<>>

\* models.py:95: f"{dependency.specs}".lstrip("="), None without specs
PinOf(specs) == IF Len(specs) > 0 THEN LStrip(specs, {"="}) ELSE NoPin

\* models.py:92-103: Dependency.parse_dependency
parse_dependency(dependency) ==
    Dependency(dependency.name, PinOf(dependency.specs), dependency.extras,
               parse_options(CommentOf(dependency.line)))

\* urllib.parse.urlparse of scheme://netloc/path#fragment
Urlparse(url) ==
    LET rest == AfterFirst(url, <<":", "/", "/">>)
        located == BeforeFirst(rest, Hash)
    IN  [scheme |-> BeforeFirst(url, <<":", "/", "/">>),
         netloc |-> BeforeFirst(located, Slash),
         path |-> IF Contains(located, Slash) THEN Slash \o AfterFirst(located, Slash) ELSE <<>>,
         fragment |-> AfterFirst(rest, Hash)]

DotGit == <<".", "g", "i", "t">>
EggMark == <<"e", "g", "g", "=">>

\* ".".join(s.split(".")[:-1])
RECURSIVE WithoutLastPiece(_)
WithoutLastPiece(s) ==
    IF Contains(s, Dot)
    THEN IF Contains(AfterFirst(s, Dot), Dot)
         THEN BeforeFirst(s, Dot) \o Dot \o WithoutLastPiece(AfterFirst(s, Dot))
         ELSE BeforeFirst(s, Dot)
    ELSE <<>>

\* models.py:191-236: GitHubDependency.parse_line; <<>> is None
parse_line(line) ==
    LET o == Urlparse(BeforeFirst(line, Space))
        current_url == BeforeFirst(o.path, At)
        current_tag == IF Contains(o.path, At) THEN SecondPiece(o.path, At) ELSE <<>>
        path_parts == Split(LStrip(current_url, {"/"}), Slash)
        extra == IF Contains(line, Space) THEN AfterFirst(line, Space) ELSE <<>>
        dep_line == Without(o.fragment, EggMark)
                    \o (IF current_tag # <<>> THEN <<"=", "=">> \o current_tag ELSE <<>>)
                    \o (IF extra # <<>> THEN Space \o extra ELSE <<>>)
        found == DparseDependencies(dep_line)
    IN  IF ~EndsWith(current_url, DotGit) THEN <<>>
        ELSE IF Len(path_parts) # 2 THEN <<>>
        ELSE IF Len(found) = 0 THEN <<>>
        ELSE <<GitHubDependency(found[1].name, PinOf(found[1].specs), found[1].extras,
                                parse_options(CommentOf(found[1].line)),
                                o.scheme, path_parts[1], WithoutLastPiece(path_parts[2]))>>

HttpsPrefix == <<"g", "i", "t", "+", "h", "t", "t", "p", "s", ":", "/", "/", "g", "i", "t", "h", "u", "b", ".", "c", "o", "m", "/">>
SshPrefix == <<"g", "i", "t", "+", "s", "s", "h", ":", "/", "/", "g", "i", "t", "@", "g", "i", "t", "h", "u", "b", ".", "c", "o", "m", "/">>
EggFragment == <<"#", "e", "g", "g", "=">>

\* models.py:138-150: what one line of the file becomes
ParsedLine(line) ==
    LET deps == DparseDependencies(line)
        stripped == Strip(line)
        github == /\ StartsWith(stripped, HttpsPrefix) \/ StartsWith(stripped, SshPrefix)
                  /\ Contains(stripped, EggFragment)
    IN  IF deps # <<>> THEN parse_dependency(deps[1])
        ELSE IF github /\ parse_line(stripped) # <<>> THEN parse_line(stripped)[1]
        ELSE RawDependency(stripped)

\* models.py:130-151: Requirements.parse_requirements_txt, the dependencies
parse_requirements_txt(lines) == [n \in DOMAIN lines |-> ParsedLine(lines[n])]

\* models.py:106-114: Dependency.export_requirements_txt
DependencyExport(dependency) ==
    dependency.name
    \o (IF dependency.extras # <<>>
        THEN <<"[">> \o Join(Comma \o Space, dependency.extras) \o <<"]">> ELSE <<>>)
    \o (IF dependency.version_pin # <<>> THEN <<"=", "=">> \o dependency.version_pin ELSE <<>>)
    \o (IF dependency.options.raw # <<>>
        THEN Space \o Hash \o Space \o dependency.options.raw ELSE <<>>)

\* models.py:238-246: GitHubDependency.render_contents
render_contents(dependency) ==
    dependency.git_schema \o <<":", "/", "/">>
    \o (IF dependency.git_schema = <<"g", "i", "t", "+", "s", "s", "h">> THEN <<"g", "i", "t", "@">> ELSE <<>>)
    \o <<"g", "i", "t", "h", "u", "b", ".", "c", "o", "m", "/">> \o dependency.github_org \o Slash \o dependency.github_repo \o DotGit
    \o (IF dependency.version_pin # <<>> THEN At \o dependency.version_pin ELSE <<>>)
    \o EggFragment \o dependency.name
    \o (IF dependency.options.raw # <<>>
        THEN Space \o Hash \o Space \o dependency.options.raw ELSE <<>>)

\* dependency.export_requirements_txt(): RawDependency has its own
\* (models.py:80-81); GitHubDependency defines none and, being a
\* Dependency (models.py:184-185), has Dependency's
export_entry(dependency) ==
    IF IsRaw(dependency) THEN dependency.line ELSE DependencyExport(dependency)

\* models.py:174-181: Requirements.export_requirements_txt
export_requirements_txt(deps) ==
    Join(Newline, [n \in DOMAIN deps |-> export_entry(deps[n])] \o <<<<>>>>)

\* ---- the files the parser is run on
MaxLines == 2

OpaqueLine == <<"-", "r", " ", "b", "a", "s", "e", ".", "t", "x", "t">>
CommentLine == <<"#", " ", "t", "o", "o", "l", "s">>
PlainLine == <<"p", "k", "g", "=", "=", "1", ".", "8", ".", "0">>
PlainLineFull == <<"p", "k", "g", "[", "e", "x", "t", "r", "a", "]", "=", "=", "1", ".", "8", ".", "0", " ", "#", " ", "p", "i", "p", "u", "p", ":", "i", "g", "n", "o", "r", "e">>
SourceRefLine == <<"g", "i", "t", "+", "h", "t", "t", "p", "s", ":", "/", "/", "g", "i", "t", "h", "u", "b", ".", "c", "o", "m", "/", "a", "c", "m", "e", "/", "w", "i", "d", "g", "e", "t", ".", "g", "i", "t", "@", "v", "1", ".", "2", ".", "0", "#", "e", "g", "g", "=", "w", "i", "d", "g", "e", "t">>
SourceRefSshLine == <<"g", "i", "t", "+", "s", "s", "h", ":", "/", "/", "g", "i", "t", "@", "g", "i", "t", "h", "u", "b", ".", "c", "o", "m", "/", "a", "c", "m", "e", "/", "w", "i", "d", "g", "e", "t", ".", "g", "i", "t", "@", "v", "1", ".", "2", ".", "0", "#", "e", "g", "g", "=", "w", "i", "d", "g", "e", "t", " ", "#", " ", "p", "i", "p", "u", "p", ":", "g", "i", "t", ":", "t", "a", "g", "s">>

FileLines ==
    {OpaqueLine, CommentLine, PlainLine, PlainLineFull, SourceRefLine, SourceRefSshLine}

\* the files, as readlines gives them: every line with its newline
RequirementsTxts == SeqsUpTo({line \o Newline : line \in FileLines}, MaxLines)

\* ---- the parser's steps
InitParse ==
    /\ MergeIdle
    /\ UpdaterIdle
    /\ IndexIdle
    /\ \/ ppc = "options" /\ text \in CommentTexts /\ fh = <<>>
       \/ ppc = "file" /\ text = <<>> /\ fh \in RequirementsTxts
    /\ dependency_options = <<>>
    /\ resolved = <<>>
    /\ parsed = <<>>
    /\ contents = <<>>

\* DependencyOptions.parse_options(text)
ParseOptions ==
    /\ ppc = "options"
    /\ dependency_options' = parse_options(text)
    /\ ppc' = "parsed"
    /\ UNCHANGED <<text, resolved, fh, parsed, contents>>
    /\ UNCHANGED <<merge_vars, updater_vars, index_vars>>

\* updater.py:69-107 for the dependency that carries the options
ResolveCarrier ==
    /\ ppc = "parsed"
    /\ LET dependency == Carrier(dependency_options)
           found == IF Queried(dependency) THEN CarriedReleases ELSE <<>>
           releases == FilterReleases(dependency, found)
       IN  resolved' = [queried |-> Queried(dependency),
                        update |-> MakeUpdate(dependency, releases),
                        dependency |-> UpdatedDependency(dependency, releases)]
    /\ ppc' = "resolved"
    /\ UNCHANGED <<text, dependency_options, fh, parsed, contents>>
    /\ UNCHANGED <<merge_vars, updater_vars, index_vars>>

\* Requirements.parse_requirements_txt(base_path, file_path)
ParseRequirementsTxt ==
    /\ ppc = "file"
    /\ parsed' = parse_requirements_txt(fh)
    /\ ppc' = "read"
    /\ UNCHANGED <<text, dependency_options, resolved, fh, contents>>
    /\ UNCHANGED <<merge_vars, updater_vars, index_vars>>

\* Requirements.export_requirements_txt()
ExportRequirementsTxt ==
    /\ ppc = "read"
    /\ contents' = export_requirements_txt(parsed)
    /\ ppc' = "exported"
    /\ UNCHANGED <<text, dependency_options, resolved, fh, parsed>>
    /\ UNCHANGED <<merge_vars, updater_vars, index_vars>>

NextParse ==
    \/ ParseOptions
    \/ ResolveCarrier
    \/ ParseRequirementsTxt
    \/ ExportRequirementsTxt

SpecParse == InitParse /\ [][NextParse]_vars

\* ================================================================ claims
Reads == {"get_refs", "get_default_branch", "get_file_sha", "get_pull_request_actions"}

Issued(name) == \E n \in DOMAIN log : log[n].call = name

Terminal == pc \in {"done", "raised"}

LastCall == log[Len(log)]

\* The required check names as the settings give them, lower-cased
Required == {Lower(workflows[k]) : k \in DOMAIN workflows}

\* The latest poll lists w with conclusion c
Observed(w, c) == \E n \in DOMAIN snapshot : snapshot[n] = <<w, c>>

\* The poll that ended the wait found every required check concluded and at
\* least one of them not successful
ChecksFailed ==
    /\ \A w \in Required : \E c \in Conclusions : Observed(w, c)
    /\ \E w \in Required : \E c \in Conclusions \ {"success"} : Observed(w, c)

\* The file has at least one changed pin
Changed(u) == u.kind = "Requirements" /\ \E n \in DOMAIN u.pin_changed : u.pin_changed[n]

C3_NoHeadRefNoMutation ==
    (remote[DefaultRef] = 0 /\ Issued("get_default_branch") /\ LastCall.ok) =>
        /\ pc = "done"
        /\ ret = "False"
        /\ \A n \in DOMAIN log : log[n].call \in {"get_refs", "get_default_branch"}
        /\ polls = 0
        /\ remote[BranchRef] = 0

C3_Witness ==
    /\ remote[DefaultRef] = 0
    /\ pc = "done"
    /\ head_ref = None
    /\ ret = "False"

\* C4: when no file handed to _merge has a changed pin, no commit, pull
\* request, poll, comment or merge is ever issued, and once the branch was
\* created the run ends with the delete-branch call, returning False.
C4_NoChangesNoPullRequest ==
    (\A k \in DOMAIN updates : updates[k].kind = "Requirements" /\ ~Changed(updates[k])) =>
        /\ \A n \in DOMAIN log :
              log[n].call \in {"get_refs", "get_default_branch", "create_branch", "delete_branch"}
        /\ polls = 0
        /\ pc \notin {"wait", "merge", "comment", "delete"}
        /\ (Terminal /\ remote[DefaultRef] # 0 /\ \E n \in DOMAIN log : log[n] = Call("create_branch", head_sha, TRUE))
              => /\ LastCall.call = "delete_branch"
                 /\ LastCall.ok => (pc = "done" /\ ret = "False" /\ remote[BranchRef] = 0)

C4_Witness ==
    /\ Len(updates) = 2
    /\ \A k \in DOMAIN updates : updates[k].kind = "Requirements" /\ ~Changed(updates[k])
    /\ pc = "done"
    /\ LastCall = Call("delete_branch", 0, TRUE)
    /\ remote[BranchRef] = 0

IsPrefix(a, b) == Len(a) <= Len(b) /\ a = SubSeq(b, 1, Len(a))

NotRead(c) == c.call \notin Reads

NotComment(c) == c[1] # "create_commit_comment"

\* The mutating calls issued so far, in order: the call and, for a file
\* write, the index of the file
Mutations ==
    LET m == SelectSeq(log, NotRead)
    IN  [n \in DOMAIN m |-> <<m[n].call, IF m[n].call = "update_branch_file" THEN m[n].arg ELSE 0>>]

IsChangedIndex(k) == Changed(updates[k])

\* One file write per file with a changed pin, in the order of the input
Writes ==
    LET idx == SelectSeq([k \in DOMAIN updates |-> k], IsChangedIndex)
    IN  [n \in DOMAIN idx |-> <<"update_branch_file", idx[n]>>]

WithPullRequest == <<<<"create_branch", 0>>>> \o Writes \o <<<<"create_pull_request", 0>>>>

BranchCreated == \E n \in DOMAIN log : log[n].call = "create_branch" /\ log[n].ok

PollOrder ==
    /\ polls > 0 => \E n \in DOMAIN log : log[n].call = "create_pull_request" /\ log[n].ok
    /\ (pc \in {"merge", "comment", "delete"} \/ Issued("merge_pull_request")
           \/ Issued("create_commit_comment")) => polls > 0

Pending ==
    /\ pc = "wait"
    /\ \E w \in Required :
          ~\E k \in DOMAIN WorkflowRuns :
              /\ conclusions[k] # None
              /\ WorkflowRuns[k].event = "pull_request"
              /\ pull_request_id \in WorkflowRuns[k].pull_requests
              /\ Lower(WorkflowRuns[k].name) = w

\* C6: while a required check has not concluded the wait does not return:
\* a step leaves the pipeline waiting (or the poll itself raises), with no
\* merge, comment or delete issued and nothing returned; and the next poll
\* is always possible, however many polls were made.
C6_WaitsWhilePending ==
    /\ [][Pending => /\ pc' \in {"wait", "raised"}
                     /\ SelectSeq(log', NotRead) = SelectSeq(log, NotRead)
                     /\ remote' = remote
                     /\ ret' = None]_vars
    /\ [](pc = "wait" => ENABLED Poll)

C6_Witness ==
    /\ Pending
    /\ polls = MaxPolls
    /\ Observed(ci, "failure")
    /\ Required = {ci, Lower(Lint)}

\* C7: a run with a changed file, the head ref found and no failed call,
\* once it can go no further, has merged (returning True) or has rejected
\* (branch deleted, returning False).
C7_EndsMergedOrRejected ==
    (/\ Terminal
     /\ \E k \in DOMAIN updates : Changed(updates[k])
     /\ remote[DefaultRef] # 0
     /\ \A n \in DOMAIN log : log[n].ok)
        => /\ pc = "done"
           /\ \/ ret = "True" /\ LastCall.call = "merge_pull_request"
              \/ ret = "False" /\ LastCall.call = "delete_branch" /\ Issued("create_pull_request")

Fatal == {"create_branch", "update_branch_file", "create_pull_request", "merge_pull_request"}

InputEntries(k) == requirements[k].dependencies

\* The entries and the updates the pass has produced for file k so far
OutputEntries(k) ==
    IF k <= Len(new_requirements) THEN new_requirements[k].dependencies
    ELSE IF k = file_no THEN dependencies ELSE <<>>

OutputUpdates(k) ==
    IF k <= Len(new_requirements) THEN new_requirements[k].updates
    ELSE IF k = file_no THEN file_updates ELSE <<>>

\* The number of entries that are not opaque among the first n of file k
Rank(k, n) == Cardinality({j \in 1..n : InputEntries(k)[j].kind # "RawDependency"})

\* The update recorded for entry n of file k
UpdateOf(k, n) == OutputUpdates(k)[Rank(k, n)]

InPass == rpc \in {"update", "raised"}

\* One update for each entry that is not opaque, among the entries done
Aligned ==
    \A k \in DOMAIN requirements :
        /\ Len(OutputEntries(k)) <= Len(InputEntries(k))
        /\ Len(OutputUpdates(k)) = Rank(k, Len(OutputEntries(k)))

Skipped(e) == e.options.ignore \/ e.name = Url

Accepts(e, release) ==
    \A clause \in e.options.specifier : ClauseContains(clause, release)

\* C9: for an entry that is not opaque, not ignored and not a url, the new
\* pin is the first candidate, in the order of the Release Source, that the
\* version constraint accepts (any candidate when there is no constraint);
\* with no such candidate the previous pin is kept; pin_changed holds iff a
\* candidate was selected and differs from the previous pin.
C9_NewestAcceptedCandidate ==
    InPass =>
        /\ Aligned
        /\ \A k \in DOMAIN requirements : \A n \in 1..Len(OutputEntries(k)) :
              LET e == InputEntries(k)[n]
              IN  (e.kind # "RawDependency" /\ ~Skipped(e)) =>
                    LET c == index[e.name].releases
                        u == UpdateOf(k, n)
                        ok == {j \in DOMAIN c : Accepts(e, c[j])}
                    IN  /\ u.name = e.name
                        /\ u.previous_pin = e.version_pin
                        /\ IF ok = {}
                           THEN /\ u.new_pin = e.version_pin
                                /\ ~u.pin_changed
                                /\ OutputEntries(k)[n] = e
                           ELSE LET first == CHOOSE j \in ok : \A x \in ok : j <= x
                                IN  /\ u.new_pin = c[first]
                                    /\ u.pin_changed <=> (c[first] # e.version_pin)
                                    /\ OutputEntries(k)[n].version_pin = c[first]

\* candidates 2.0.0, 1.9.0, 1.8.0: 2.0.0 without a constraint, 1.9.0 under
\* >=1.0,<2.0
C9_Witness ==
    /\ rpc = "update"
    /\ index[Pkg].releases = <<<<2, 0, 0>>, <<1, 9, 0>>, <<1, 8, 0>>>>
    /\ Len(new_requirements) >= 1
    /\ InputEntries(1) = <<Dependency(Pkg, <<1, 8, 0>>, <<>>, DependencyOptions({}, FALSE, "")),
                           Dependency(Pkg, <<1, 8, 0>>, <<>>, DependencyOptions(Below2, FALSE, "pipup"))>>
    /\ new_requirements[1].updates =
           <<Update(Pkg, <<1, 8, 0>>, <<2, 0, 0>>, TRUE), Update(Pkg, <<1, 8, 0>>, <<1, 9, 0>>, TRUE)>>

\* C10: for an entry with ignore set or with a url for a name, with or
\* without a version constraint, the pass issues no query, records exactly
\* one update, with the new pin equal to the previous pin and pin_changed
\* false, and emits the entry unchanged.
C10_SkippedEntriesUntouched ==
    InPass =>
        /\ Aligned
        /\ \A k \in DOMAIN requirements : \A n \in 1..Len(OutputEntries(k)) :
              LET e == InputEntries(k)[n]
              IN  (e.kind # "RawDependency" /\ Skipped(e)) =>
                    /\ ~\E q \in DOMAIN queries : queries[q].file = k /\ queries[q].entry = n
                    /\ UpdateOf(k, n) = Update(e.name, e.version_pin, e.version_pin, FALSE)
                    /\ OutputEntries(k)[n] = e

C10_Witness ==
    /\ rpc = "update"
    /\ index[Pkg].releases = <<<<2, 0, 0>>, <<1, 9, 0>>, <<1, 8, 0>>>>
    /\ Len(new_requirements) >= 1
    /\ InputEntries(1) = <<Dependency(Pkg, <<1, 8, 0>>, <<>>, DependencyOptions(Below2, TRUE, "pipup")),
                           Dependency(Url, <<1, 8, 0>>, <<>>, DependencyOptions(Below2, FALSE, "pipup"))>>
    /\ new_requirements[1].dependencies = InputEntries(1)
    /\ queries = <<>>

\* The Release Source has failed for a dependency of the run
LookupFailed == \E q \in DOMAIN queries : ~index[queries[q].name].found

\* C11: once the Release Source has failed for any dependency of any file,
\* the run has ended by the exception: no file has been written to disk,
\* _update has returned nothing and no delivery is started, whatever was
\* resolved before the failure.
C11_AllOrNothing ==
    LookupFailed =>
        /\ rpc = "raised"
        /\ saved = <<>>
        /\ cli_updates = <<>>
        /\ ~ENABLED NextResolve

\* the first file resolved with a changed pin, the failure in the second
C11_Witness ==
    /\ LookupFailed
    /\ Len(new_requirements) = 1
    /\ \E n \in DOMAIN new_requirements[1].updates : new_requirements[1].updates[n].pin_changed
    /\ file_no = 2
    /\ saved = <<>>

\* C12: every entry the pass emits for an entry that is not opaque is the
\* original with at most the pin replaced: same kind (with scheme, org and
\* repo for a GitHubDependency), name, extras and options.
C12_ClonePinOnly ==
    InPass =>
        \A k \in DOMAIN requirements : \A n \in 1..Len(OutputEntries(k)) :
            LET e == InputEntries(k)[n]
                o == OutputEntries(k)[n]
            IN  e.kind # "RawDependency" =>
                    /\ DOMAIN o = DOMAIN e
                    /\ o = [e EXCEPT !.version_pin = o.version_pin]

\* The entries of file k that are not opaque, in order
Resolvable(k) ==
    LET NotRaw(e) == e.kind # "RawDependency"
    IN  SelectSeq(InputEntries(k), NotRaw)

\* C13: the pass emits the files in order, and for every file it has done,
\* as many entries as the input has, opaque entries unchanged at their
\* positions and the others at theirs, and one update for each entry that
\* is not opaque, in entry order, and none for an opaque one.
C13_SequencePreserved ==
    InPass =>
        /\ Aligned
        /\ \A k \in DOMAIN new_requirements :
              LET in == InputEntries(k)
                  out == new_requirements[k].dependencies
                  upd == new_requirements[k].updates
              IN  /\ new_requirements[k].file_path = requirements[k].file_path
                  /\ Len(out) = Len(in)
                  /\ \A n \in DOMAIN in :
                        IF in[n].kind = "RawDependency"
                        THEN out[n] = in[n]
                        ELSE /\ out[n].kind # "RawDependency"
                             /\ out[n].name = in[n].name
                             /\ out[n].options = in[n].options
                  /\ Len(upd) = Len(Resolvable(k))
                  /\ \A j \in DOMAIN upd :
                        /\ upd[j].name = Resolvable(k)[j].name
                        /\ upd[j].previous_pin = Resolvable(k)[j].version_pin

\* a file done: an opaque entry followed by one whose pin changed
C13_Witness ==
    /\ rpc = "update"
    /\ Len(new_requirements) >= 1
    /\ Len(InputEntries(1)) = 2
    /\ InputEntries(1)[1].kind = "RawDependency"
    /\ InputEntries(1)[2].kind # "RawDependency"
    /\ new_requirements[1].updates[1].pin_changed

\* No update produced so far, in the files done or in the one in progress,
\* has pin_changed
NoChangeReported ==
    \A k \in DOMAIN requirements : \A j \in DOMAIN OutputUpdates(k) :
        ~OutputUpdates(k)[j].pin_changed

\* The second pass emits its input
SecondPassStable ==
    (pass_no = 2 /\ InPass) =>
        /\ NoChangeReported
        /\ \A k \in DOMAIN requirements : \A n \in 1..Len(OutputEntries(k)) :
               OutputEntries(k)[n] = InputEntries(k)[n]

\* The entries the pass looks up
LookedUp ==
    {e \in UNION {{InputEntries(k)[n] : n \in DOMAIN InputEntries(k)} : k \in DOMAIN requirements} :
        e.kind # "RawDependency" /\ ~Skipped(e)}

\* The snapshot has no version newer than the pin of any entry (and writes
\* a version equal to a pin as the pin is written)
NothingNewer ==
    \A e \in LookedUp : \A j \in DOMAIN index[e.name].releases :
        LET release == index[e.name].releases[j]
        IN  /\ ~VersionLess(e.version_pin, release)
            /\ VersionEqual(e.version_pin, release) => e.version_pin = release

\* For every entry, the first release its constraint accepts is its pin, or
\* its constraint accepts none
Settled ==
    \A e \in LookedUp :
        LET c == index[e.name].releases
            ok == {j \in DOMAIN c : Accepts(e, c[j])}
        IN  ok = {} \/ c[CHOOSE j \in ok : \A x \in ok : j <= x] = e.version_pin

\* C14 as claimed: the second pass reports no changed pin and emits the
\* first pass's output, and with no version newer than the current pins in
\* the snapshot the first pass reports no changed pin either.
C14_AsClaimed ==
    /\ SecondPassStable
    /\ (pass_no = 1 /\ InPass /\ NothingNewer) => NoChangeReported

\* C14: the second pass reports no changed pin and emits the first pass's
\* output (have_updates is false for every file it returns); when the first
\* release that each entry's constraint accepts is the entry's pin, or there
\* is none, the first pass reports no changed pin either.
C14_Idempotent ==
    /\ SecondPassStable
    /\ (pass_no = 1 /\ InPass /\ Settled) => NoChangeReported
    /\ (pass_no = 2 /\ rpc = "done") =>
           \A k \in DOMAIN requirements : ~have_updates(AsDelivered(requirements[k]))

\* a second pass complete, after a first one that changed a pin
C14_Witness ==
    /\ pass_no = 2
    /\ rpc = "update"
    /\ Len(new_requirements) = Len(requirements)
    /\ \E k \in DOMAIN requirements : \E j \in DOMAIN requirements[k].updates :
          /\ requirements[k].updates[j].pin_changed
          /\ ~new_requirements[k].updates[j].pin_changed
          /\ new_requirements[k].updates[j].new_pin = requirements[k].updates[j].new_pin

\* --------------------------------------------------- release source claims
InLookup == ipc \in {"lookup", "filter", "returned", "HTTPError", "ValueError"}

\* The first mirror whose answer is not 404; 0 when there is none
FirstAnswer ==
    IF \E m \in DOMAIN mirrors : mirrors[m].status # 404
    THEN CHOOSE m \in DOMAIN mirrors :
             /\ mirrors[m].status # 404
             /\ \A k \in 1..(m - 1) : mirrors[k].status = 404
    ELSE 0

\* C15: the mirrors are queried in order, each after a 404 of the one
\* before, and none after the first that answers otherwise; that answer is
\* the package if it is a success and ends the lookup by HTTPError if not;
\* with 404 from every mirror, or no mirror, the lookup ends by ValueError.
C15_FirstMirrorNot404 ==
    InLookup =>
        /\ requested = [k \in 1..Len(requested) |-> k]
        /\ \A k \in 1..(Len(requested) - 1) : mirrors[k].status = 404
        /\ FirstAnswer # 0 => Len(requested) <= FirstAnswer
        /\ ipc \in {"filter", "returned"} =>
              /\ FirstAnswer # 0
              /\ Len(requested) = FirstAnswer
              /\ ~RaisesForStatus(mirrors[FirstAnswer].status)
              /\ package = Json(mirrors[FirstAnswer].releases)
        /\ ipc = "HTTPError" =>
              /\ FirstAnswer # 0
              /\ Len(requested) = FirstAnswer
              /\ RaisesForStatus(mirrors[FirstAnswer].status)
              /\ package = NoPackage
        /\ ipc = "ValueError" =>
              /\ FirstAnswer = 0
              /\ Len(requested) = Len(mirrors)
        /\ ipc \in {"HTTPError", "ValueError"} => ~ENABLED NextIndex
        /\ (ipc = "lookup" /\ FirstAnswer = 0 /\ Len(requested) = Len(mirrors)) =>
              ENABLED NoMirror

\* 404 from the first mirror, the package from the second, the third one,
\* which would fail, not queried
C15_Witness ==
    /\ ipc = "returned"
    /\ Len(mirrors) = 3
    /\ mirrors[1].status = 404
    /\ mirrors[2].status = 200
    /\ mirrors[3].status = 500
    /\ requested = <<1, 2>>
    /\ candidates = <<V190>>

Returned(name) == \E n \in DOMAIN candidates : candidates[n] = name

\* A release key that is a candidate as far as its name goes
Eligible(key) == ~PreReleasePattern(key) /\ Parse(key).valid

\* C16: of the releases of the package, one whose files are all yanked is
\* not returned, and one with a file that is not yanked is returned (if its
\* name is that of a candidate).
C16_DiscardedIffAllYanked ==
    ipc = "returned" =>
        \A n \in DOMAIN package.releases :
            LET key == package.releases[n][1]
                files == package.releases[n][2]
            IN  Eligible(key) =>
                    (Returned(Render(Parse(key))) <=> \E f \in DOMAIN files : ~files[f])

\* candidates is in descending order of version precedence
NewestFirst ==
    \A a, b \in DOMAIN candidates :
        a < b => ~Precedes(Parse(candidates[a]), Parse(candidates[b]))

\* C17: what each of the three accessors returns is sorted newest first by
\* version precedence.
C17_SortedByPrecedence ==
    ipc \in {"returned", "tags", "releases"} => NewestFirst

\* C18: what an accessor returns holds no pre-release: no name ending in a,
\* b, rc or dev and digits, no version with an alpha, beta, release
\* candidate or development phase, and no name that is not a version.
C18_NoPreReleaseCandidate ==
    ipc \in {"returned", "tags", "releases"} =>
        \A n \in DOMAIN candidates :
            /\ Parse(candidates[n]).valid
            /\ ~PreReleasePattern(candidates[n])
            /\ ~IsPreRelease(Parse(candidates[n]))

\* -------------------------------------------------- delivery claims, continued
\* The number of changed pins of a file
ChangedPins(u) == Cardinality({n \in DOMAIN u.pin_changed : u.pin_changed[n]})

\* The titles of the pull requests asked for
Titles == {log[n].arg : n \in {k \in DOMAIN log : log[k].call = "create_pull_request"}}

Counted(k) ==
    /\ conclusions[k] # None
    /\ WorkflowRuns[k].event = "pull_request"
    /\ pull_request_id \in WorkflowRuns[k].pull_requests

\* What the poll has found is what the counted runs give, names compared
\* without regard to case
PollMatches ==
    /\ \A w \in Required :
          DictHas(snapshot, w) <=>
              \E k \in DOMAIN WorkflowRuns : Counted(k) /\ Lower(WorkflowRuns[k].name) = w
    /\ \A n \in DOMAIN snapshot :
          \E k \in DOMAIN WorkflowRuns :
              /\ Counted(k)
              /\ Lower(WorkflowRuns[k].name) = snapshot[n][1]
              /\ conclusions[k] = snapshot[n][2]

\* C20: after every poll that answered, a required name is among the
\* concluded ones exactly when a counted run has that name up to letter
\* case, with the conclusion of such a run; a run of another event, of
\* another pull request or without conclusion contributes nothing.
C20_CaseInsensitiveMatch ==
    [][(pc = "wait" /\ conclusions' = conclusions /\ pc' # "raised") => PollMatches']_vars

\* "CI" required, the run "ci" of this pull request successful; the runs
\* "CI" of the other pull request and of the push failed
C20_Witness ==
    /\ workflows = <<CI>>
    /\ pull_request_id = 2
    /\ conclusions[1] = "failure"
    /\ conclusions[3] = "failure"
    /\ conclusions[4] = "success"
    /\ snapshot = <<<<ci, "success">>>>
    /\ pc = "merge"

\* ------------------------------------------------ requirements file claims
\* the comment of the directive example, after the "#" and the space
ClaimedComment == <<"p", "i", "p", "u", "p", ":", " ", "v", "e", "r", "s", "i", "o", "n", ":", "<", "2", ".", "0", " ", "i", "g", "n", "o", "r", "e">>

\* the same two directives, each behind a marker of its own
MarkedComment == <<"p", "i", "p", "u", "p", ":", "v", "e", "r", "s", "i", "o", "n", ":", "<", "2", ".", "0", " ", "p", "i", "p", "u", "p", ":", "i", "g", "n", "o", "r", "e">>

OptionsParsed == ppc \in {"parsed", "resolved"}

\* the marker occurs in a text at k
MarkerAt(t, k) ==
    k + Len(Marker) - 1 <= Len(t) /\ SubSeq(t, k, k + Len(Marker) - 1) = Marker

\* the token behind the marker at k: what stands between it and the next space
TokenAt(t, k) == BeforeFirst(SubSeq(t, k + Len(Marker), Len(t)), Space)

\* the constraint of the last of the tokens that assign one
RECURSIVE LastConstraint(_, _)
LastConstraint(words, constraint) ==
    IF words = <<>> THEN constraint
    ELSE LastConstraint(SubSeq(words, 2, Len(words)),
                        IF StartsWith(words[1], VersionKey)
                        THEN SpecifierSet(SecondPiece(words[1], Colon))
                        ELSE constraint)

\* the tokens behind the markers of a text, in order
RECURSIVE MarkedTokens(_, _)
MarkedTokens(t, k) ==
    IF k > Len(t) THEN <<>>
    ELSE IF MarkerAt(t, k) THEN <<TokenAt(t, k)>> \o MarkedTokens(t, k + 1)
    ELSE MarkedTokens(t, k + 1)

\* the whitespace-delimited tokens that follow the first marker, in order,
\* a token's own marker taken off
TokensInOrder(t) ==
    LET words == Split(AfterFirst(t, Marker), Space)
    IN  [n \in DOMAIN words |->
            IF StartsWith(words[n], Marker) THEN AfterFirst(words[n], Marker) ELSE words[n]]

InRange(seq) == {seq[n] : n \in DOMAIN seq}

\* the options a sequence of tokens stands for: every recognized one
\* applied, the last constraint standing
OptionsOf(tokens, raw) ==
    [specifier |-> LastConstraint(tokens, {}),
     ignore |-> IgnoreOption \in InRange(tokens),
     use_tags |-> GitTagsOption \in InRange(tokens),
     allow_pre_releases |-> ReleasesPreOption \in InRange(tokens),
     raw |-> raw]

\* an ignored dependency is resolved with its pin and without a query
ResolvedUntouched ==
    ppc = "resolved" /\ dependency_options.ignore
        => /\ ~resolved.queried
           /\ ~resolved.update.pin_changed
           /\ resolved.dependency.version_pin = CarriedPin

FileParsed == ppc \in {"read", "exported"}

IsSourceRef(dependency) == dependency.kind = "GitHubDependency"

\* the line is read as the source reference of the example
ReadAsExample(dependency) ==
    /\ IsSourceRef(dependency)
    /\ dependency.github_org = <<"a", "c", "m", "e">>
    /\ dependency.github_repo = <<"w", "i", "d", "g", "e", "t">>
    /\ dependency.version_pin = <<"v", "1", ".", "2", ".", "0">>

\* C22: a file parsed and then exported (export_requirements_txt over the
\* parsed entries, no pin changed) is the input line for line, whatever the
\* kinds of its entries; the line
\* git+https://github.com/acme/widget.git@v1.2.0#egg=widget is read as org
\* acme, repo widget, pin v1.2.0 and comes out as the same string.
C22_RoundTrip ==
    /\ FileParsed =>
           \A n \in DOMAIN fh :
               fh[n] = SourceRefLine \o Newline => ReadAsExample(parsed[n])
    /\ ppc = "exported" => contents = Flatten(fh)

\* ------------------------------------------------ delivery claims, the end
Merged == \E n \in DOMAIN log : log[n].call = "merge_pull_request" /\ log[n].ok

HeadRead == \E n \in DOMAIN log : log[n].call = "get_default_branch" /\ log[n].ok

MergeDecided == pc = "merge" \/ Issued("merge_pull_request")

====
